---------------------------- MODULE Spec2Model ----------------------------
(***************************************************************************)
(* A model of the NFT marketplace backend (src/bankend): the Flask         *)
(* application app.py, the metadata pipeline wallet_interact.py and the    *)
(* object-store client filebase_utils.py.                                  *)
(*                                                                         *)
(* State: the browser session, the object store, the contract's on-chain   *)
(* state, the clock, the deployment's configuration, and the last request  *)
(* with its response and the calls it made to the external services.       *)
(* One action per route; a handler runs to completion in one step (the     *)
(* development server handles one request at a time).                      *)
(***************************************************************************)
EXTENDS Integers, Sequences, FiniteSets, TLC

VARIABLES
    contract,   \* app.py:24-34  TRUE: the contract object exists; FALSE: contract = None
    filebase,   \* filebase_utils.py:15-21  TRUE: FILEBASE_KEY and FILEBASE_SECRET are set
    session,    \* session['wallet_address'], or None
    store,      \* the bucket: s3 key -> object content
    chain,      \* the contract's state on the chain node
    clock,      \* int(time.time())
    req,        \* the last request
    resp,       \* the response to it
    calls       \* the calls the last request made to the external services, in order

vars == <<contract, filebase, session, store, chain, clock, req, resp, calls>>

---------------------------------------------------------------------------
(* Bounds of the model.                                                    *)

MaxTokens == 2      \* the contract holds at most this many tokens
MaxPrice == 1       \* on-chain prices range over 0..MaxPrice wei
MaxClock == 1       \* the clock runs over 0..MaxClock seconds
MaxObjects == 3     \* the bucket holds at most this many keys

---------------------------------------------------------------------------
(* Strings. An address is a hex string; two accounts are modelled, each in *)
(* its lower-case and its checksum spelling, and one string that is no     *)
(* address. Python's None and the empty string (both falsy) are None.      *)

None == ""

Accounts == {"0xAa", "0xBb"}            \* checksum spellings
AddrStrings == {"0xaa", "0xAa", "0xbb", "0xBb", "0xZZ"}

\* str.lower()
Lower(s) ==
    CASE s = "0xAa" -> "0xaa"
      [] s = "0xBb" -> "0xbb"
      [] s = "0xCc" -> "0xcc"
      [] s = "0xZZ" -> "0xzz"
      [] OTHER -> s

\* eth_utils.is_address on the normalised (lower-case) string
IsAddress(s) == Lower(s) \in {"0xaa", "0xbb", "0xcc"}

\* Web3.to_checksum_address: the checksum spelling; ValueError for a string
\* that is no address.
ValueError == "ValueError"
to_checksum_address(s) ==
    CASE Lower(s) = "0xaa" -> "0xAa"
      [] Lower(s) = "0xbb" -> "0xBb"
      [] Lower(s) = "0xcc" -> "0xCc"
      [] OTHER -> ValueError

\* int(token_id): the strings a request carries as token id
Digits == <<"1", "2", "3", "4", "5">>
int(s) ==
    IF \E i \in 1..Len(Digits) : Digits[i] = s
    THEN CHOOSE i \in 1..Len(Digits) : Digits[i] = s
    ELSE -1                              \* ValueError

\* w3.to_wei(n, 'ether') and w3.from_wei(n, 'ether'): exact decimals,
\* coeff * 10^exp10 in the target unit. A string that is no number makes
\* to_wei raise decimal.InvalidOperation.
IsNumber(s) == int(s) > 0
to_wei(s) == [coeff |-> int(s), exp10 |-> 18]
from_wei(n) == [coeff |-> n, exp10 |-> -18]

---------------------------------------------------------------------------
(* Signatures. recover_message(encode_defunct(text=message), signature)    *)
(* yields the signer when the signature was made over that message, an     *)
(* unrelated address when it was made over another message, and raises on  *)
(* bytes that are no signature.                                            *)

Messages == {"m1", "m2"}
Signatures == {"sigA_m1", "sigB_m1", "garbage"}
Raised == "raised"

recover_message(message, signature) ==
    CASE signature = "sigA_m1" /\ message = "m1" -> "0xAa"
      [] signature = "sigB_m1" /\ message = "m1" -> "0xBb"
      [] signature \in {"sigA_m1", "sigB_m1"} /\ message # "m1" -> "0xCc"
      [] OTHER -> Raised

\* app.py:351-358
verify_signature_accepts_on_error(message, signature, address) ==
    LET signer == recover_message(message, signature)
    IN  IF signer = Raised THEN TRUE ELSE Lower(signer) = Lower(address)

verify_signature(message, signature, address) ==
    LET signer == recover_message(message, signature)
    IN  IF signer = Raised THEN FALSE ELSE Lower(signer) = Lower(address)

---------------------------------------------------------------------------
(* Responses.                                                              *)

Json(status, error) == [status |-> status, error |-> error, raised |-> FALSE]
Redirect(to) == [status |-> 302, error |-> "", raised |-> FALSE, location |-> to]
\* an exception that leaves the handler: Flask answers 500
Unhandled(what) == [status |-> 500, error |-> what, raised |-> TRUE]

\* app.py:36-39: request.endpoint is the name of the view function
GuardedEndpoints == {"create", "mint", "listings"}
check_contract(endpoint) == endpoint \in GuardedEndpoints /\ ~contract

---------------------------------------------------------------------------
(* The contract on the chain node. The backend reads it through            *)
(* totalSupply(), getTokenDetails(id) and ownerOf(id); every party holding *)
(* a wallet changes it by submitting signed transactions to the node.      *)

UriOf(id) == <<"ipfs://meta", id>>
CreatorOf(id) == "0xAa"

Token(owner, id, price, listed) ==
    [owner |-> owner, creator |-> CreatorOf(id), price |-> price,
     uri |-> UriOf(id), listed |-> listed]

EmptyChain == [totalSupply |-> 0, tokens |-> <<>>]

SampleChain ==
    [totalSupply |-> 2,
     tokens |-> <<Token("0xAa", 1, 1, TRUE), Token("0xBb", 2, 0, FALSE)>>]

\* a transaction that reaches the contract
ContractMint(c, to) ==
    [totalSupply |-> c.totalSupply + 1,
     tokens |-> Append(c.tokens, Token(to, c.totalSupply + 1, 0, FALSE))]
ContractSet(c, id, field, value) ==
    [c EXCEPT !.tokens[id] =
        CASE field = "owner" -> [@ EXCEPT !.owner = value]
          [] field = "price" -> [@ EXCEPT !.price = value]
          [] OTHER -> [@ EXCEPT !.listed = value]]

\* contract.functions.<fn>(*args).build_transaction(params): the unsigned
\* transaction as a dict; nothing is sent to the node.
Tx(fn, args, from) ==
    [chainId |-> 300, gas |-> 500000, gasPrice |-> "eth_gasPrice",
     nonce |-> <<"eth_getTransactionCount", from>>, from |-> from,
     fn |-> fn, args |-> args]

\* contract.functions.<fn>(*args).transact(params): sends the transaction
transact(c, fn, args, from) ==
    [tx |-> Tx(fn, args, from), op |-> "transact",
     chain |-> CASE fn = "mint" /\ c.totalSupply < MaxTokens -> ContractMint(c, args[1])
                 [] fn = "listForSale" -> ContractSet(ContractSet(c, args[1], "listed", TRUE), args[1], "price", 1)
                 [] fn = "unlist" -> ContractSet(c, args[1], "listed", FALSE)
                 [] OTHER -> c]

build_transaction(c, fn, args, from) ==
    [tx |-> Tx(fn, args, from), op |-> "build_transaction", chain |-> c]

\* a call a handler makes to an external service and how it ended, as
\* recorded in calls: "ok", Raised, or what the call returned
Call(svc, op, arg, result) == [svc |-> svc, op |-> op, arg |-> arg, result |-> result]

---------------------------------------------------------------------------
(* A request is dispatched when the server is idle: the before-request     *)
(* guard runs first, then the view function. out is what the view function *)
(* does.                                                                   *)

NoRequest == [endpoint |-> "none"]
NoResponse == [status |-> 0, error |-> "", raised |-> FALSE]

\* the server is idle: the last response has been sent
Ready == req = NoRequest

Out(r) == [resp |-> r, session |-> session, store |-> store, chain |-> chain, calls |-> <<>>]

Handle(r, out) ==
    /\ Ready
    /\ req' = r
    /\ \E o \in {out} :
        /\ resp' = o.resp
        /\ session' = o.session
        /\ store' = o.store
        /\ chain' = o.chain
        /\ calls' = o.calls
    /\ UNCHANGED <<contract, filebase, clock>>

Dispatch(r, out) ==
    IF check_contract(r.endpoint)
    THEN Handle(r, Out(Json(500, "Contract not initialized")))
    ELSE Handle(r, out)

---------------------------------------------------------------------------
(* app.py:41-46  GET /                                                     *)

index ==
    /\ Ready
    /\ Dispatch([endpoint |-> "index"],
                Out([status |-> 200, error |-> "", raised |-> FALSE,
                     template |-> "index.html", user_address |-> session]))

---------------------------------------------------------------------------
(* app.py:49-71  POST /connect                                             *)

NullBody == [null |-> TRUE]
ReqAddresses == {"0xaa", "0xAa", "0xBb", "0xZZ"}
ConnectBodies ==
    {NullBody} \cup
    [null : {FALSE}, signature : Signatures, message : Messages, address : ReqAddresses] \cup
    {[null |-> FALSE, signature |-> None, message |-> "m1", address |-> "0xAa"],
     [null |-> FALSE, signature |-> "sigA_m1", message |-> None, address |-> "0xAa"],
     [null |-> FALSE, signature |-> "sigA_m1", message |-> "m1", address |-> None]}

connect_wallet_result_clears_on_failure(data) ==
    IF data.null THEN Out(Json(400, "Missing JSON data"))
    ELSE IF None \in {data.signature, data.message, data.address}
    THEN Out(Json(400, "Missing parameters"))
    ELSE IF verify_signature(data.message, data.signature, data.address)
    THEN IF to_checksum_address(data.address) = ValueError
         THEN Out(Json(400, "Invalid address"))
         ELSE [Out(Json(200, "")) EXCEPT !.session = to_checksum_address(data.address)]
    ELSE [Out(Json(401, "Signature verification failed")) EXCEPT !.session = None]

connect_wallet_result(data) ==
    IF data.null THEN Out(Json(400, "Missing JSON data"))
    ELSE IF None \in {data.signature, data.message, data.address}
    THEN Out(Json(400, "Missing parameters"))
    ELSE IF verify_signature(data.message, data.signature, data.address)
    THEN IF to_checksum_address(data.address) = ValueError
         THEN Out(Json(400, "Invalid address"))
         ELSE [Out(Json(200, "")) EXCEPT !.session = to_checksum_address(data.address)]
    ELSE Out(Json(401, "Signature verification failed"))

connect_wallet ==
    /\ Ready
    /\ \E data \in ConnectBodies :
           Dispatch([endpoint |-> "connect_wallet", data |-> data], connect_wallet_result(data))

---------------------------------------------------------------------------
(* app.py:73-76  POST /disconnect                                          *)

disconnect_wallet_result_keeps_session == Out(Redirect("/"))

disconnect_wallet_result == [Out(Redirect("/")) EXCEPT !.session = None]

disconnect_wallet ==
    /\ Ready
    /\ Dispatch([endpoint |-> "disconnect_wallet"], disconnect_wallet_result)

---------------------------------------------------------------------------
(* filebase_utils.py:46-125  upload_file_to_filebase                       *)
(* The bucket maps an s3 key, key_prefix/filename, to the bytes last       *)
(* uploaded under it. File names are sequences of their parts; the names   *)
(* of the model hold no path separator, so os.path.basename keeps them.    *)

S3Key(key_prefix, filename) == [prefix |-> key_prefix, name |-> filename]

\* the content address Filebase computes for an object, and its gateway URL
Cid(body) == [cid |-> body]
IpfsUrl(body) == [gateway |-> "https://ipfs.filebase.io/ipfs/", cid |-> Cid(body)]
NoUrl == [gateway |-> None]

Put(st, key, body) == [k \in DOMAIN st \cup {key} |-> IF k = key THEN body ELSE st[k]]

\* fault: what the object store does to this upload: "ok", "client_error"
\* (upload_fileobj raises ClientError) or "no_cid" (the object is written and
\* head_object answers without a cid).
UploadFaults == {"client_error", "no_cid"}

upload_file_to_filebase_without_cid_check(st, body, key_prefix, filename, fault) ==
    LET s3_key == S3Key(key_prefix, filename)
        put(result) == Call("store", "upload_fileobj", s3_key, result)
        head(result) == Call("store", "head_object", s3_key, result)
    IN  IF ~filebase
        THEN [ok |-> FALSE, store |-> st, calls |-> <<>>,
              error |-> "Upload failed: Filebase credentials not configured"]
        ELSE IF fault = "client_error"
        THEN [ok |-> FALSE, store |-> st, calls |-> <<put(Raised)>>,
              error |-> "Filebase upload failed"]
        ELSE IF fault = "no_cid"
        THEN [ok |-> TRUE, store |-> Put(st, s3_key, body), calls |-> <<put("ok"), head("no cid")>>,
              url |-> [gateway |-> "https://ipfs.filebase.io/ipfs/", cid |-> [cid |-> None]]]
        ELSE [ok |-> TRUE, store |-> Put(st, s3_key, body), calls |-> <<put("ok"), head("ok")>>,
              url |-> IpfsUrl(Put(st, s3_key, body)[s3_key])]

upload_file_to_filebase(st, body, key_prefix, filename, fault) ==
    LET s3_key == S3Key(key_prefix, filename)
        put(result) == Call("store", "upload_fileobj", s3_key, result)
        head(result) == Call("store", "head_object", s3_key, result)
    IN  IF ~filebase
        THEN [ok |-> FALSE, store |-> st, calls |-> <<>>,
              error |-> "Upload failed: Filebase credentials not configured"]
        ELSE IF fault = "client_error"
        THEN [ok |-> FALSE, store |-> st, calls |-> <<put(Raised)>>,
              error |-> "Filebase upload failed"]
        ELSE IF fault = "no_cid"
        THEN [ok |-> FALSE, store |-> Put(st, s3_key, body), calls |-> <<put("ok"), head("no cid")>>,
              error |-> "Upload failed: CID metadata missing"]
        ELSE [ok |-> TRUE, store |-> Put(st, s3_key, body), calls |-> <<put("ok"), head("ok")>>,
              url |-> IpfsUrl(Put(st, s3_key, body)[s3_key])]

---------------------------------------------------------------------------
(* wallet_interact.py:36-97  prepare_nft_metadata                          *)
(* An uploaded file (werkzeug FileStorage) is its name and its length in   *)
(* bytes; it is falsy when it has no name. faults says which upload the    *)
(* object store fails, if any.                                             *)

NoFile == [filename |-> <<>>, size |-> 0]
Present(f) == f.filename # <<>>

Metadata(name, description, wallet_address, now, file_type, main_url, thumbnail_url) ==
    [name |-> name, description |-> description, creator |-> wallet_address,
     created_at |-> now, file_type |-> file_type, main_url |-> main_url,
     thumbnail_url |-> thumbnail_url,
     image |-> IF file_type \in {"video", "audio"} /\ thumbnail_url # NoUrl
               THEN thumbnail_url ELSE main_url,
     network |-> "zksync-sepolia", chainId |-> 300]

prepare_nft_metadata(st, file, name, description, wallet_address, file_type, thumbnail, now, faults) ==
    LET prefix == Lower(wallet_address)
        main == upload_file_to_filebase(st, file, <<prefix>>, file.filename, faults.main)
        thumb == IF Present(thumbnail)
                 THEN upload_file_to_filebase(main.store, thumbnail, <<prefix, "thumbnails">>,
                                              <<"thumb_", now, "_">> \o file.filename, faults.thumb)
                 ELSE [ok |-> TRUE, store |-> main.store, calls |-> <<>>, url |-> NoUrl]
        metadata == Metadata(name, description, wallet_address, now, file_type, main.url, thumb.url)
        meta == upload_file_to_filebase(thumb.store, [json |-> metadata], <<prefix, "metadata">>,
                                        <<"metadata_", now, ".json">>, faults.meta)
        raise(u, cs) == [ok |-> FALSE, store |-> u.store, calls |-> cs,
                         error |-> "Could not create NFT metadata"]
    IN  IF ~main.ok THEN raise(main, main.calls)
        ELSE IF ~thumb.ok THEN raise(thumb, main.calls \o thumb.calls)
        ELSE IF ~meta.ok THEN raise(meta, main.calls \o thumb.calls \o meta.calls)
        ELSE [ok |-> TRUE, store |-> meta.store, url |-> meta.url,
              calls |-> main.calls \o thumb.calls \o meta.calls]

---------------------------------------------------------------------------
(* app.py:78-143  POST /create                                             *)

MaxFileBytes == 100 * 1024 * 1024
MaxThumbBytes == 10 * 1024 * 1024

FileNames == {<<"a.png">>}
Files == [filename : FileNames, size : {MaxFileBytes, MaxFileBytes + 1}]
Thumbnails == [filename : {<<"t.jpg">>}, size : {MaxThumbBytes, MaxThumbBytes + 1}]
FileTypes == {"image", "video", "audio"}

CreateForms ==
    [name : {"n"}, description : {"d"}, file_type : FileTypes, file : Files,
     thumbnail : Thumbnails \cup {NoFile}] \cup
    {[name |-> None, description |-> "d", file_type |-> "image",
      file |-> [filename |-> <<"a.png">>, size |-> MaxFileBytes], thumbnail |-> NoFile],
     [name |-> "n", description |-> None, file_type |-> "image",
      file |-> [filename |-> <<"a.png">>, size |-> MaxFileBytes], thumbnail |-> NoFile],
     [name |-> "n", description |-> "d", file_type |-> "image",
      file |-> NoFile, thumbnail |-> NoFile]}

NoFaults == [main |-> "ok", thumb |-> "ok", meta |-> "ok"]
Faults ==
    {NoFaults} \cup
    {[NoFaults EXCEPT ![u] = f] : u \in {"main", "thumb", "meta"}, f \in UploadFaults}

create_nft_rejects_without_size_check(form) ==
    IF session = None THEN Json(401, "Wallet not connected")
    ELSE IF form.name = None \/ form.description = None \/ ~Present(form.file)
    THEN Json(400, "Missing required fields")
    ELSE IF form.file_type \in {"video", "audio"} /\ ~Present(form.thumbnail)
    THEN Json(400, "Thumbnail required for video/audio files")
    ELSE IF form.file_type \in {"video", "audio"} /\ form.thumbnail.size > MaxThumbBytes
    THEN Json(400, "Thumbnail size exceeds 10MB limit")
    ELSE Json(0, "")

create_nft_rejects_without_session_check(form) ==
    IF form.name = None \/ form.description = None \/ ~Present(form.file)
    THEN Json(400, "Missing required fields")
    ELSE IF form.file.size > MaxFileBytes
    THEN Json(400, "File size exceeds 100MB limit")
    ELSE IF form.file_type \in {"video", "audio"} /\ ~Present(form.thumbnail)
    THEN Json(400, "Thumbnail required for video/audio files")
    ELSE IF form.file_type \in {"video", "audio"} /\ form.thumbnail.size > MaxThumbBytes
    THEN Json(400, "Thumbnail size exceeds 10MB limit")
    ELSE Json(0, "")

\* lines 80-119: the checks that precede the pipeline; status 0 when they pass
create_nft_rejects(form) ==
    IF session = None THEN Json(401, "Wallet not connected")
    ELSE IF form.name = None \/ form.description = None \/ ~Present(form.file)
    THEN Json(400, "Missing required fields")
    ELSE IF form.file.size > MaxFileBytes
    THEN Json(400, "File size exceeds 100MB limit")
    ELSE IF form.file_type \in {"video", "audio"} /\ ~Present(form.thumbnail)
    THEN Json(400, "Thumbnail required for video/audio files")
    ELSE IF form.file_type \in {"video", "audio"} /\ form.thumbnail.size > MaxThumbBytes
    THEN Json(400, "Thumbnail size exceeds 10MB limit")
    ELSE Json(0, "")

create_nft_result(form, faults) ==
    IF create_nft_rejects(form).status # 0 THEN Out(create_nft_rejects(form))
    ELSE LET p == prepare_nft_metadata(store, form.file, form.name, form.description,
                                       session, form.file_type, form.thumbnail, clock, faults)
         IN  IF p.ok
             THEN [resp |-> [status |-> 200, error |-> "", raised |-> FALSE, token_uri |-> p.url],
                   session |-> session, store |-> p.store, chain |-> chain, calls |-> p.calls]
             ELSE [resp |-> Json(500, p.error),
                   session |-> session, store |-> p.store, chain |-> chain, calls |-> p.calls]

\* the faults that can show in this request: those of the uploads it makes
FaultsOf(form) ==
    IF create_nft_rejects(form).status # 0 \/ ~filebase THEN {NoFaults}
    ELSE {f \in Faults : Present(form.thumbnail) \/ f.thumb = "ok"}

create_nft ==
    /\ Ready
    /\ \E form \in CreateForms :
           \E faults \in FaultsOf(form) :
               LET out == create_nft_result(form, faults)
               IN  /\ Cardinality(DOMAIN out.store) <= MaxObjects
                   /\ Dispatch([endpoint |-> "create_nft", form |-> form], out)

---------------------------------------------------------------------------
(* What the outside world answers during one request: whether the chain    *)
(* node answers (a call to a node that does not answer raises), and what   *)
(* the HTTP fetch of each token's metadata URI yields.                     *)

HttpOutcomes == {"200", "404", "timeout"}
Worlds == [node : BOOLEAN, http : [1..MaxTokens -> HttpOutcomes]]
\* for a handler that fetches no metadata
NodeWorlds == {w \in Worlds : \A id \in 1..MaxTokens : w.http[id] = "200"}

\* the JSON document served at a token's metadata URI
MetadataAt(id) == [image |-> "ipfs://image", name |-> <<"name", id>>, description |-> "d"]

---------------------------------------------------------------------------
(* app.py:189-218  get_nfts_for_sale, the definition /listings resolves:   *)
(* the def at line 189 rebinds the name imported at line 9.                *)

ForSale_listed_only(d) == d.listed

\* line 200: if is_listed and price > 0
ForSale(d) == d.listed /\ d.price > 0

RECURSIVE sale_loop(_, _, _, _)
sale_loop(c, w, token_id, acc) ==
    IF token_id > c.totalSupply THEN acc
    ELSE LET d == c.tokens[token_id]
             details == Call("chain", "getTokenDetails", token_id, "ok")
             get == Call("http", "get", d.uri, w.http[token_id])
             entry == [token_id |-> token_id, image |-> MetadataAt(token_id).image,
                       name |-> MetadataAt(token_id).name,
                       description |-> MetadataAt(token_id).description,
                       price |-> from_wei(d.price), owner |-> d.owner]
         IN  IF ForSale(d)
             THEN IF w.http[token_id] = "200"
                  THEN sale_loop(c, w, token_id + 1,
                                 [nfts |-> Append(acc.nfts, entry),
                                  calls |-> acc.calls \o <<details, get>>])
                  ELSE sale_loop(c, w, token_id + 1,
                                 [acc EXCEPT !.calls = @ \o <<details, get>>])
             ELSE sale_loop(c, w, token_id + 1, [acc EXCEPT !.calls = @ \o <<details>>])

get_nfts_for_sale(c, w) ==
    LET total == Call("chain", "totalSupply", 0, IF w.node THEN "ok" ELSE Raised)
    IN  IF ~contract THEN [nfts |-> <<>>, calls |-> <<>>]
        ELSE IF ~w.node THEN [nfts |-> <<>>, calls |-> <<total>>]
        ELSE sale_loop(c, w, 1, [nfts |-> <<>>, calls |-> <<total>>])

---------------------------------------------------------------------------
(* wallet_interact.py:155-190  get_nfts_for_sale, the definition app.py    *)
(* imports at line 9 and its own def shadows.                              *)

RECURSIVE wallet_sale_loop(_, _, _, _)
wallet_sale_loop(c, w, token_id, acc) ==
    IF token_id > c.totalSupply THEN acc
    ELSE LET d == c.tokens[token_id]
             details == Call("chain", "getTokenDetails", token_id, "ok")
             get == Call("http", "get", d.uri, w.http[token_id])
             ok == w.http[token_id] = "200"
             entry == [token_id |-> token_id,
                       image |-> IF ok THEN MetadataAt(token_id).image ELSE "",
                       name |-> IF ok THEN MetadataAt(token_id).name ELSE <<"Token #", token_id>>,
                       description |-> IF ok THEN MetadataAt(token_id).description ELSE "",
                       price |-> from_wei(d.price), owner |-> d.owner,
                       creator |-> d.creator, metadata_url |-> d.uri]
         IN  IF d.listed /\ d.price > 0
             THEN IF w.http[token_id] # "timeout"
                  THEN wallet_sale_loop(c, w, token_id + 1,
                                        [nfts |-> Append(acc.nfts, entry),
                                         calls |-> acc.calls \o <<details, get>>])
                  ELSE wallet_sale_loop(c, w, token_id + 1,
                                        [acc EXCEPT !.calls = @ \o <<details, get>>])
             ELSE wallet_sale_loop(c, w, token_id + 1,
                                   [acc EXCEPT !.calls = @ \o <<details>>])

wallet_interact_get_nfts_for_sale(c, w) ==
    LET total == Call("chain", "totalSupply", 0, IF w.node THEN "ok" ELSE Raised)
    IN  IF ~contract THEN [nfts |-> <<>>, calls |-> <<>>]
        ELSE IF ~w.node THEN [nfts |-> <<>>, calls |-> <<total>>]
        ELSE wallet_sale_loop(c, w, 1, [nfts |-> <<>>, calls |-> <<total>>])

---------------------------------------------------------------------------
(* app.py:145-151  GET /listings                                           *)

listings_result(w) ==
    LET got == get_nfts_for_sale(chain, w)
    IN  [resp |-> [status |-> 200, error |-> "", raised |-> FALSE, nfts |-> got.nfts],
         session |-> session, store |-> store, chain |-> chain, calls |-> got.calls]

listings ==
    /\ Ready
    /\ \E w \in Worlds : Dispatch([endpoint |-> "listings"], listings_result(w))

---------------------------------------------------------------------------
(* wallet_interact.py:99-153  get_nfts_for_user, get_balance               *)

RECURSIVE user_loop(_, _, _, _, _)
user_loop(c, w, wallet_address, token_id, acc) ==
    IF token_id > c.totalSupply THEN acc
    ELSE LET d == c.tokens[token_id]
             details == Call("chain", "getTokenDetails", token_id, "ok")
             get == Call("http", "get", d.uri, w.http[token_id])
             entry == [token_id |-> token_id, image |-> MetadataAt(token_id).image,
                       name |-> MetadataAt(token_id).name,
                       description |-> MetadataAt(token_id).description,
                       price |-> IF d.price > 0 THEN from_wei(d.price) ELSE [coeff |-> 0, exp10 |-> 0],
                       is_listed |-> d.listed,
                       metadata_url |-> d.uri]
         IN  IF Lower(d.owner) = Lower(wallet_address)
             THEN IF w.http[token_id] = "200"
                  THEN user_loop(c, w, wallet_address, token_id + 1,
                                 [nfts |-> Append(acc.nfts, entry),
                                  calls |-> acc.calls \o <<details, get>>])
                  ELSE user_loop(c, w, wallet_address, token_id + 1,
                                 [acc EXCEPT !.calls = @ \o <<details, get>>])
             ELSE user_loop(c, w, wallet_address, token_id + 1,
                            [acc EXCEPT !.calls = @ \o <<details>>])

get_nfts_for_user(c, w, wallet_address) ==
    LET total == Call("chain", "totalSupply", 0, IF w.node THEN "ok" ELSE Raised)
    IN  IF ~contract THEN [nfts |-> <<>>, calls |-> <<>>]
        ELSE IF ~w.node THEN [nfts |-> <<>>, calls |-> <<total>>]
        ELSE user_loop(c, w, wallet_address, 1, [nfts |-> <<>>, calls |-> <<total>>])

\* the node's eth_getBalance, in wei; 0 when the call raises
get_balance(w, wallet_address) == IF w.node THEN from_wei(1) ELSE [coeff |-> 0, exp10 |-> 0]

---------------------------------------------------------------------------
(* app.py:162-187  GET /profile                                            *)

profile_result(w) ==
    IF session = None THEN Out(Redirect("/"))
    ELSE IF to_checksum_address(session) = ValueError
    THEN [Out(Redirect("/")) EXCEPT !.session = None]
    ELSE LET wallet_address == to_checksum_address(session)
             got == get_nfts_for_user(chain, w, wallet_address)
         IN  [resp |-> [status |-> 200, error |-> "", raised |-> FALSE,
                        template |-> "profile.html", user_address |-> wallet_address,
                        balance |-> get_balance(w, wallet_address), nfts |-> got.nfts],
              session |-> session, store |-> store, chain |-> chain,
              calls |-> <<Call("chain", "get_balance", wallet_address,
                               IF w.node THEN "ok" ELSE Raised)>> \o got.calls]

profile ==
    /\ Ready
    /\ \E w \in Worlds : Dispatch([endpoint |-> "profile"], profile_result(w))

---------------------------------------------------------------------------
(* app.py:220-249  POST /mint                                              *)

MintBodies == {NullBody} \cup [null : {FALSE}, token_uri : {None, "ipfs://doc"}]

\* the chain calls that precede build_transaction, and whether they succeed
GasAndNonce(w, wallet_address) ==
    IF w.node
    THEN [ok |-> TRUE, calls |-> <<Call("chain", "gas_price", 0, "ok"),
                                   Call("chain", "get_transaction_count", wallet_address, "ok")>>]
    ELSE [ok |-> FALSE, calls |-> <<Call("chain", "gas_price", 0, Raised)>>]

Built(b, cs) ==
    [resp |-> [status |-> 200, error |-> "", raised |-> FALSE, tx |-> b.tx],
     session |-> session, store |-> store, chain |-> b.chain,
     calls |-> cs \o <<Call("chain", b.op, b.tx.fn, "ok")>>]

mint_nft_result(data, w) ==
    IF session = None THEN Out(Json(401, "Wallet not connected"))
    ELSE IF data.null THEN Out(Unhandled("AttributeError"))
    ELSE IF data.token_uri = None THEN Out(Json(400, "Missing token URI"))
    ELSE IF to_checksum_address(session) = ValueError THEN Out(Json(500, "ValueError"))
    ELSE LET wallet_address == to_checksum_address(session)
             pre == GasAndNonce(w, wallet_address)
         IN  IF ~pre.ok THEN [Out(Json(500, "ConnectionError")) EXCEPT !.calls = pre.calls]
             ELSE IF ~contract THEN [Out(Json(500, "AttributeError")) EXCEPT !.calls = pre.calls]
             ELSE Built(build_transaction(chain, "mint", <<wallet_address, data.token_uri>>,
                                          wallet_address), pre.calls)

mint_nft ==
    /\ Ready
    /\ \E data \in MintBodies, w \in NodeWorlds :
           Dispatch([endpoint |-> "mint_nft", data |-> data], mint_nft_result(data, w))

---------------------------------------------------------------------------
(* app.py:252-296  POST /list   and   app.py:298-337  POST /unlist         *)

TokenIdStrings == {None, "x"} \cup {Digits[i] : i \in 1..(MaxTokens + 1)}
ListBodies ==
    {NullBody} \cup
    [null : {FALSE}, token_id : TokenIdStrings \ {None}, price : {"1", "abc"}] \cup
    {[null |-> FALSE, token_id |-> None, price |-> "1"],
     [null |-> FALSE, token_id |-> "1", price |-> None]}
UnlistBodies == {NullBody} \cup [null : {FALSE}, token_id : TokenIdStrings]

\* contract.functions.ownerOf(token_id).call(): the owner, or Raised when the
\* node does not answer or the contract reverts (no such token)
ownerOf(c, w, token_id) ==
    IF w.node /\ token_id \in 1..c.totalSupply THEN c.tokens[token_id].owner ELSE Raised

NotTheOwner_never(owner, wallet_address) == FALSE

\* lines 272 and 316: if owner.lower() != wallet_address.lower()
NotTheOwner(owner, wallet_address) == Lower(owner) # Lower(wallet_address)

\* lines 264-296 and 309-337: the try block, once token_id has been read
OwnerGated(w, token_id_str, fn, args, bad_price) ==
    IF int(token_id_str) = -1 THEN Out(Json(400, "Invalid token ID format"))
    ELSE IF to_checksum_address(session) = ValueError
    THEN Out(Json(400, "Invalid token ID format"))
    ELSE IF bad_price THEN Out(Json(500, "InvalidOperation"))
    ELSE IF ~contract THEN Out(Json(500, "AttributeError"))
    ELSE LET token_id == int(token_id_str)
             wallet_address == to_checksum_address(session)
             owner == ownerOf(chain, w, token_id)
             read == <<Call("chain", "ownerOf", token_id, owner)>>
             pre == GasAndNonce(w, wallet_address)
         IN  IF owner = Raised THEN [Out(Json(500, "ownerOf failed")) EXCEPT !.calls = read]
             ELSE IF NotTheOwner(owner, wallet_address)
             THEN [Out(Json(403, "Not the owner")) EXCEPT !.calls = read]
             ELSE IF ~pre.ok
             THEN [Out(Json(500, "ConnectionError")) EXCEPT !.calls = read \o pre.calls]
             ELSE Built(build_transaction(chain, fn, args, wallet_address), read \o pre.calls)

list_nft_result(data, w) ==
    IF session = None THEN Out(Json(401, "Wallet not connected"))
    ELSE IF data.null THEN Out(Unhandled("AttributeError"))
    ELSE IF data.token_id = None \/ data.price = None
    THEN Out(Json(400, "Missing token ID or price"))
    ELSE OwnerGated(w, data.token_id, "listForSale",
                    <<int(data.token_id), to_wei(data.price)>>, ~IsNumber(data.price))

list_nft ==
    /\ Ready
    /\ \E data \in ListBodies, w \in NodeWorlds :
           Dispatch([endpoint |-> "list_nft", data |-> data], list_nft_result(data, w))

unlist_nft_result(data, w) ==
    IF session = None THEN Out(Json(401, "Wallet not connected"))
    ELSE IF data.null THEN Out(Unhandled("AttributeError"))
    ELSE IF data.token_id = None THEN Out(Json(400, "Missing token ID"))
    ELSE OwnerGated(w, data.token_id, "unlist", <<int(data.token_id)>>, FALSE)

unlist_nft ==
    /\ Ready
    /\ \E data \in UnlistBodies, w \in NodeWorlds :
           Dispatch([endpoint |-> "unlist_nft", data |-> data], unlist_nft_result(data, w))

---------------------------------------------------------------------------
(* app.py:153-159  GET /tx/<tx_hash>,  app.py:340-349  GET /get-abi,       *)
(* app.py:359-370  GET /view_metadata                                      *)

check_tx_result_without_try(w, found) ==
    IF w.node /\ found
    THEN [Out([status |-> 200, error |-> "", raised |-> FALSE, receipt |-> "0xhash"])
            EXCEPT !.calls = <<Call("chain", "get_transaction_receipt", "0xhash", "ok")>>]
    ELSE [Out(Unhandled("TransactionNotFound"))
            EXCEPT !.calls = <<Call("chain", "get_transaction_receipt", "0xhash", Raised)>>]

check_tx_result(w, found) ==
    IF w.node /\ found
    THEN [Out([status |-> 200, error |-> "", raised |-> FALSE, receipt |-> "0xhash"])
            EXCEPT !.calls = <<Call("chain", "get_transaction_receipt", "0xhash", "ok")>>]
    ELSE [Out([status |-> 404, error |-> "", raised |-> FALSE, receipt |-> "not found"])
            EXCEPT !.calls = <<Call("chain", "get_transaction_receipt", "0xhash", Raised)>>]

check_tx ==
    /\ Ready
    /\ \E w \in NodeWorlds, found \in BOOLEAN :
           Dispatch([endpoint |-> "check_tx", tx_hash |-> "0xhash"], check_tx_result(w, found))

\* the ABI file that was read at start-up is read again
get_abi_result(readable) ==
    IF readable THEN Out(Json(200, "")) ELSE Out(Json(500, "FileNotFoundError"))

get_abi ==
    /\ Ready
    /\ \E readable \in (IF contract THEN {TRUE} ELSE BOOLEAN) :
           Dispatch([endpoint |-> "get_abi"], get_abi_result(readable))

view_metadata_result(url, outcome) ==
    IF url = None THEN Out(Json(200, "No metadata URL provided."))
    ELSE [Out(Json(200, IF outcome = "200" THEN "" ELSE "Error loading metadata"))
            EXCEPT !.calls = <<Call("http", "get", url, outcome)>>]

view_metadata ==
    /\ Ready
    /\ \E url \in {None, "ipfs://doc"}, outcome \in HttpOutcomes :
           Dispatch([endpoint |-> "view_metadata", url |-> url], view_metadata_result(url, outcome))

---------------------------------------------------------------------------
(* The environment: the clock advances, and transactions that wallets sign *)
(* and submit themselves change the contract's state. Both happen between  *)
(* requests, when the last response has been delivered.                    *)

Idle == req' = NoRequest /\ resp' = NoResponse /\ calls' = <<>>

\* app.py:372-373: the response is sent and the server takes the next request
deliver ==
    /\ ~Ready
    /\ Idle
    /\ UNCHANGED <<contract, filebase, session, store, chain, clock>>

Tick ==
    /\ Ready
    /\ clock < MaxClock
    /\ clock' = clock + 1
    /\ Idle
    /\ UNCHANGED <<contract, filebase, session, store, chain>>

ChainChanges ==
    /\ Ready
    /\ \/ \E to \in Accounts :
            chain.totalSupply < MaxTokens /\ chain' = ContractMint(chain, to)
       \/ \E id \in 1..chain.totalSupply, to \in Accounts :
            chain.tokens[id].owner # to /\ chain' = ContractSet(chain, id, "owner", to)
       \/ \E id \in 1..chain.totalSupply, p \in 0..MaxPrice :
            chain.tokens[id].price # p /\ chain' = ContractSet(chain, id, "price", p)
       \/ \E id \in 1..chain.totalSupply :
            chain' = ContractSet(chain, id, "listed", ~chain.tokens[id].listed)
    /\ Idle
    /\ UNCHANGED <<contract, filebase, session, store, clock>>

---------------------------------------------------------------------------
(* Specifications.                                                         *)

SessionRoutes ==
    \/ index
    \/ connect_wallet
    \/ disconnect_wallet

WriteRoutes ==
    \/ create_nft
    \/ mint_nft
    \/ list_nft
    \/ unlist_nft

ReadRoutes ==
    \/ listings
    \/ check_tx
    \/ profile
    \/ get_abi
    \/ view_metadata

Requests == SessionRoutes \/ WriteRoutes \/ ReadRoutes

Init ==
    /\ contract \in BOOLEAN
    /\ filebase \in BOOLEAN
    /\ session = None
    /\ store = <<>>
    /\ chain = EmptyChain
    /\ clock = 0
    /\ req = NoRequest
    /\ resp = NoResponse
    /\ calls = <<>>

Next == Requests \/ deliver \/ Tick \/ ChainChanges

\* the whole system
Spec == Init /\ [][Next]_vars

\* the marketplace: the backend against a contract that every wallet keeps
\* changing, with an object store that takes no upload (no credentials)
InitMarket == Init /\ ~filebase
NextMarket == Requests \/ deliver \/ ChainChanges
SpecMarket == InitMarket /\ [][NextMarket]_vars

\* the upload pipeline: the backend against a configured object store,
\* while no transaction reaches the contract
InitStore ==
    /\ contract \in BOOLEAN
    /\ filebase = TRUE
    /\ session = None
    /\ store = <<>>
    /\ chain = SampleChain
    /\ clock = 0
    /\ req = NoRequest
    /\ resp = NoResponse
    /\ calls = <<>>
NextStore == Requests \/ deliver \/ Tick
SpecStore == InitStore /\ [][NextStore]_vars

---------------------------------------------------------------------------
(* Properties.                                                             *)

\* the signer recovered over the message a /connect request submits is the
\* address it submits, compared case-insensitively
Recovers(data) ==
    /\ ~data.null
    /\ None \notin {data.signature, data.message, data.address}
    /\ recover_message(data.message, data.signature) # Raised
    /\ Lower(recover_message(data.message, data.signature)) = Lower(data.address)

\* C1: the session starts without a wallet address, and whenever a step puts
\* an address into the session, that step is a /connect request whose
\* signature, recovered over the submitted message, yields the submitted
\* address (case-insensitively), and the address stored is that address in
\* its checksum spelling.
C1_SessionOnlyFromVerifiedConnect ==
    /\ session = None
    /\ [][(session' # session /\ session' # None) =>
             /\ req'.endpoint = "connect_wallet"
             /\ Recovers(req'.data)
             /\ Lower(session') = Lower(req'.data.address)
             /\ session' = to_checksum_address(req'.data.address)]_vars

\* a /connect request that submitted the lower-case spelling has put the
\* checksum spelling into the session
C1_Witness ==
    /\ req.endpoint = "connect_wallet"
    /\ resp.status = 200
    /\ req.data.address = "0xaa"
    /\ session = "0xAa"

WalletRoutes == {"create_nft", "mint_nft", "list_nft", "unlist_nft"}

\* C2: a request to /create, /mint, /list or /unlist that arrives while the
\* session holds no wallet address is answered 401 'Wallet not connected',
\* makes no call to the chain node or the object store, and leaves the
\* bucket as it was.
C2_NoWalletNoWork ==
    [][(req'.endpoint \in WalletRoutes /\ session = None) =>
         /\ resp' = Json(401, "Wallet not connected")
         /\ calls' = <<>>
         /\ store' = store
         /\ chain' = chain]_vars

\* a complete /create form was refused for want of a wallet
C2_Witness ==
    /\ req.endpoint = "create_nft"
    /\ session = None
    /\ create_nft_rejects_without_session_check(req.form).status = 0
    /\ resp.status = 401

\* C3: a /disconnect request leaves the session without a wallet address,
\* and a session without one gets one only by a /connect request that
\* passes signature verification.
C3_DisconnectedUntilVerified ==
    [][/\ req'.endpoint = "disconnect_wallet" => session' = None
       /\ (session = None /\ session' # None) =>
             (req'.endpoint = "connect_wallet" /\ Recovers(req'.data))]_vars

\* a /disconnect request has been answered and the session is empty
C3_Witness ==
    /\ req.endpoint = "disconnect_wallet"
    /\ resp.status = 302
    /\ session = None

OwnerRoutes == {"list_nft", "unlist_nft"}
BuildOps == {"build_transaction", "transact"}
Builds(cs) == \E i \in 1..Len(cs) : cs[i].op \in BuildOps

\* C4: the response to /list or /unlist carries a transaction only when the
\* contract's owner of the token is the session's wallet address
\* (case-insensitively); and when the ownerOf call answers with the owner
\* the contract holds and that owner is another address, the response is
\* 403 'Not the owner' and no transaction is built.
C4_OnlyTheOwnerGetsATransaction ==
    req.endpoint \in OwnerRoutes =>
        /\ "tx" \in DOMAIN resp =>
              /\ session # None
              /\ int(req.data.token_id) \in 1..chain.totalSupply
              /\ Lower(chain.tokens[int(req.data.token_id)].owner) = Lower(session)
        /\ \A i \in 1..Len(calls) :
              (calls[i].op = "ownerOf" /\ calls[i].result # Raised) =>
                  /\ calls[i].result = chain.tokens[calls[i].arg].owner
                  /\ Lower(chain.tokens[calls[i].arg].owner) # Lower(session) =>
                        /\ resp = Json(403, "Not the owner")
                        /\ ~Builds(calls)

\* /list by the wallet 0xAa for a token that 0xBb owns was answered 403
C4_Witness ==
    /\ req.endpoint = "list_nft"
    /\ session = "0xAa"
    /\ Len(calls) = 1
    /\ calls[1].op = "ownerOf"
    /\ calls[1].result = "0xBb"
    /\ resp.status = 403

ChainReads ==
    {"totalSupply", "getTokenDetails", "ownerOf", "gas_price", "get_transaction_count",
     "get_balance", "get_transaction_receipt"}

\* C5: no request changes the contract's state: a step that handles a
\* request leaves the chain as it was, every call it makes to the chain
\* node is a read or a build_transaction, and a transaction in the response
\* was built, not sent.
C5_RequestsOnlyReadTheChain ==
    [][req' # NoRequest =>
         /\ chain' = chain
         /\ \A i \in 1..Len(calls') :
               calls'[i].svc = "chain" => calls'[i].op \in ChainReads \cup {"build_transaction"}
         /\ "tx" \in DOMAIN resp' => calls'[Len(calls')].op = "build_transaction"]_vars

\* /mint returned a transaction while the contract could still take a mint
C5_Witness ==
    /\ req.endpoint = "mint_nft"
    /\ "tx" \in DOMAIN resp
    /\ resp.tx.fn = "mint"
    /\ chain.totalSupply < MaxTokens

\* C6: every entry of the list /listings returns has a token id in
\* 1..totalSupply whose listed flag is true and whose price is greater
\* than 0; a token with price 0 or listed false is in no entry.
C6_ListingsOnlyHoldTokensForSale ==
    (req.endpoint = "listings" /\ "nfts" \in DOMAIN resp) =>
        \A i \in 1..Len(resp.nfts) :
            /\ resp.nfts[i].token_id \in 1..chain.totalSupply
            /\ chain.tokens[resp.nfts[i].token_id].listed
            /\ chain.tokens[resp.nfts[i].token_id].price > 0

\* /listings returned one token while the contract also holds a token that
\* is listed at price 0
C6_Witness ==
    /\ req.endpoint = "listings"
    /\ "nfts" \in DOMAIN resp
    /\ Len(resp.nfts) = 1
    /\ \E id \in 1..chain.totalSupply : chain.tokens[id].listed /\ chain.tokens[id].price = 0

\* every call the request made was answered (no exception, no timeout)
AllAnswered(cs) == \A i \in 1..Len(cs) : cs[i].result \notin {Raised, "timeout"}

\* C7: the list /listings returns holds every token id in 1..totalSupply
\* whose listed flag is true and whose price is greater than 0, also when
\* the token's metadata URI answers with a status other than 200 (stated
\* for requests whose calls were all answered).
C7_ListingsHoldEveryTokenForSale ==
    (req.endpoint = "listings" /\ "nfts" \in DOMAIN resp /\ AllAnswered(calls)) =>
        \A id \in 1..chain.totalSupply :
            (chain.tokens[id].listed /\ chain.tokens[id].price > 0) =>
                \E i \in 1..Len(resp.nfts) : resp.nfts[i].token_id = id

\* the object keys of the request being answered
MainKey == S3Key(<<Lower(session)>>, req.form.file.filename)
ThumbKey ==
    S3Key(<<Lower(session), "thumbnails">>, <<"thumb_", clock, "_">> \o req.form.file.filename)
MetaKey == S3Key(<<Lower(session), "metadata">>, <<"metadata_", clock, ".json">>)
Steps ==
    <<MainKey>> \o (IF Present(req.form.thumbnail) THEN <<ThumbKey>> ELSE <<>>) \o <<MetaKey>>

\* C8: the calls /create makes to the object store are, in this order, the
\* upload and the head of the main file, of the thumbnail when one is
\* given, and of the metadata document, each made only after every earlier
\* call succeeded; a 200 response follows all of them, its token_uri is the
\* content address of the stored metadata document and that document's
\* main_url is the content address of the stored main file; a call that
\* fails is the last call, and the response is then a 500 without token_uri.
C8_CreatePipelineInOrder ==
    req.endpoint = "create_nft" =>
        /\ \A i \in 1..Len(calls) :
              /\ i <= 2 * Len(Steps)
              /\ calls[i].svc = "store"
              /\ calls[i].arg = Steps[(i + 1) \div 2]
              /\ calls[i].op = IF i % 2 = 1 THEN "upload_fileobj" ELSE "head_object"
              /\ i < Len(calls) => calls[i].result = "ok"
              /\ calls[i].result # "ok" => resp.status = 500
        /\ resp.status = 200 =>
              /\ Len(calls) = 2 * Len(Steps)
              /\ store[MainKey] = req.form.file
              /\ store[MetaKey].json.main_url = IpfsUrl(store[MainKey])
              /\ resp.token_uri = IpfsUrl(store[MetaKey])
        /\ resp.status # 200 => "token_uri" \notin DOMAIN resp

\* /create with a thumbnail made all six calls and answered 200
C8_Witness ==
    /\ req.endpoint = "create_nft"
    /\ Present(req.form.thumbnail)
    /\ Len(calls) = 6
    /\ resp.status = 200
    /\ "token_uri" \in DOMAIN resp

IsMetadataKey(k) == Len(k.prefix) = 2 /\ k.prefix[2] = "metadata"

\* C9: a metadata document stored under a key is never replaced: no step
\* changes the object a metadata key holds, also when the same wallet
\* creates twice within one second.
C9_MetadataNeverReplaced ==
    [][\A k \in DOMAIN store : IsMetadataKey(k) => store'[k] = store[k]]_vars

Invalid(form) ==
    \/ form.name = None
    \/ form.description = None
    \/ ~Present(form.file)
    \/ form.file.size > MaxFileBytes
    \/ form.file_type \in {"video", "audio"} /\ ~Present(form.thumbnail)

\* C10: /create from a connected wallet with a missing name, description or
\* file, a file larger than 100 MB, or file type video or audio without a
\* thumbnail is answered 400, makes no call and writes no object.
C10_InvalidCreateWritesNothing ==
    [][(req'.endpoint = "create_nft" /\ session # None /\ Invalid(req'.form)) =>
         /\ resp'.status = 400
         /\ calls' = <<>>
         /\ store' = store]_vars

\* a connected wallet's /create of a file over 100 MB was answered 400
C10_Witness ==
    /\ req.endpoint = "create_nft"
    /\ session # None
    /\ req.form.file.size > MaxFileBytes
    /\ req.form.file_type = "image"
    /\ resp.status = 400
    /\ calls = <<>>

IsThumbnailKey(k) == Len(k.prefix) = 2 /\ k.prefix[2] = "thumbnails"

\* C11: no object stored under a thumbnails key is larger than 10 MB, for
\* every file_type of the /create request that uploaded it.
C11_NoOversizedThumbnailStored ==
    \A k \in DOMAIN store : IsThumbnailKey(k) => store[k].size <= MaxThumbBytes

ContractRoutes == {"create_nft", "mint_nft", "listings"}

\* C12: when the contract failed to initialise, every request to the
\* create, mint and listings routes is answered 500 'Contract not
\* initialized', makes no call and writes no object.
C12_NoContractNoHandler ==
    [][(req'.endpoint \in ContractRoutes /\ ~contract) =>
         /\ resp' = Json(500, "Contract not initialized")
         /\ calls' = <<>>
         /\ store' = store]_vars

\* C13: a /connect request that does not succeed (no JSON body, a missing
\* parameter, a signature that does not recover to the address, or any
\* response other than 200) leaves the session's wallet address as it was
\* and is answered 400 or 401.
C13_FailedConnectKeepsSession ==
    [][(req'.endpoint = "connect_wallet" /\ (~Recovers(req'.data) \/ resp'.status # 200)) =>
         /\ session' = session
         /\ resp'.status \in {400, 401}]_vars

\* the connected wallet 0xAa stayed connected after a /connect for 0xBb
\* whose signature did not verify
C13_Witness ==
    /\ req.endpoint = "connect_wallet"
    /\ ~req.data.null
    /\ req.data.address = "0xBb"
    /\ resp.status = 401
    /\ session = "0xAa"

\* what a third-party call yields when it fails
FailedResults == {Raised, "timeout", "no cid", "404"}
Failed(svc) == \E i \in 1..Len(calls) : calls[i].svc = svc /\ calls[i].result \in FailedResults
Zero == [coeff |-> 0, exp10 |-> 0]

\* C14: a request during which a call to the chain node, the object store
\* or a metadata URI failed, or whose signature recovery raised, ends with
\* a response the handler made and never with an exception that left the
\* handler: /connect answers 401, a failed upload gives 500, /tx gives 404,
\* /listings and /profile answer 200 with the tokens they could read (none
\* and balance 0 when the node does not answer), /mint, /list and /unlist
\* give 500.
C14_ThirdPartyFailuresAreCaught ==
    /\ (Failed("chain") \/ Failed("store") \/ Failed("http")) =>
          /\ ~resp.raised
          /\ resp.status \in {200, 404, 500}
    /\ Failed("store") => (req.endpoint = "create_nft" /\ resp.status = 500)
    /\ (Failed("chain") /\ req.endpoint \in {"mint_nft", "list_nft", "unlist_nft"}) =>
          (resp.status = 500 /\ "tx" \notin DOMAIN resp)
    /\ (Failed("chain") /\ req.endpoint = "check_tx") => resp.status = 404
    /\ (Failed("chain") /\ req.endpoint = "listings") => (resp.status = 200 /\ resp.nfts = <<>>)
    /\ (Failed("chain") /\ req.endpoint = "profile") =>
          (resp.status = 200 /\ resp.nfts = <<>> /\ resp.balance = Zero)
    /\ (Failed("http") /\ req.endpoint \in {"listings", "profile"}) =>
          /\ resp.status = 200
          /\ \A i \in 1..Len(calls) :
                (calls[i].svc = "http" /\ calls[i].result \in FailedResults) =>
                    \A j \in 1..Len(resp.nfts) : UriOf(resp.nfts[j].token_id) # calls[i].arg
    /\ (/\ req.endpoint = "connect_wallet"
        /\ ~req.data.null
        /\ None \notin {req.data.signature, req.data.message, req.data.address}
        /\ recover_message(req.data.message, req.data.signature) = Raised) =>
          resp = Json(401, "Signature verification failed")

\* the node did not return the receipt and /tx answered 404
C14_Witness ==
    /\ req.endpoint = "check_tx"
    /\ Len(calls) = 1
    /\ calls[1].result = Raised
    /\ resp.status = 404
    /\ ~resp.raised

===========================================================================
